---- MODULE Spec2Model ----
(***************************************************************************)
(* Model of meshmaker's MazeGenerator (src/src/meshmaker/maze_generator.py).*)
(* A maze instance holds a wall field _maze[y][x] (TRUE = wall) and a       *)
(* reference to its _solution_path list.  generate() is modelled step by    *)
(* step: the recursion of _carve_path is an explicit stack of frames, one   *)
(* frame per invocation, each holding the shuffled directions it still has  *)
(* to try.  The module-level random generator of Python is one global       *)
(* variable shared by every instance.  Lists are heap objects, so that a    *)
(* copy and an alias are different things.                                  *)
(***************************************************************************)
EXTENDS Integers, Sequences, FiniteSets, TLC

\* ---------------------------------------------------------------- bounds
\* Largest width / height handed to the constructor.
MaxWidth == 5
MaxHeight == 5
\* Seeds handed to generate(seed) are 0..MaxSeed.
MaxSeed == 1
\* Number of states of the abstract seeded pseudorandom generator.
RngStates == 17
\* generate() calls per instance, copies handed out, caller mutations.
MaxGenerates == 2
MaxCopies == 2
MaxMutations == 2
\* generate() calls made on the two instances together, where both are used.
MaxRuns == 3
\* the solver alone is run on every wall field of at most this many cells
MaxCells == 15
\* CubeGrids used directly are rows of up to MaxDim cubes along one axis
MaxDim == 3

Insts == {1, 2}
\* An optional integer is a sequence: <<>> for None, <<n>> for the integer n.
None == <<>>
Some(n) == <<n>>
Seeds == 0..MaxSeed
\* The generator's state: OS when it was seeded from the operating system's
\* entropy (its state is unknown), <<s>> after random.seed.
OS == <<>>

\* ------------------------------------------------------------- variables
VARIABLES
    insts,      \* the instances the program creates (fixed by Init)
    args,       \* per instance: the <<width, height>> handed to the constructor (history)
    pc,         \* per instance: position in its lifecycle
    err,        \* per instance: the exception raised by the last call, "" if none
    width,      \* per instance: self.width
    height,     \* per instance: self.height
    maze,       \* per instance: self._maze, maze[i][y][x] = TRUE iff wall
    sol,        \* per instance: self._solution_path, a heap reference (0 = no attribute)
    stack,      \* per instance: the active _carve_path invocations, innermost last
    seed,       \* per instance: the seed argument of the running/last generate()
    ngen,       \* per instance: number of generate() calls made
    calls,      \* per instance: cells on which _carve_path was invoked, in order (history)
    links,      \* per instance: intervening cells opened by _carve_path (history)
    rng,        \* state of the module-level generator `random`
    heap,       \* list objects: heap[r] is the content of list r
    held,       \* references returned by get_solution_path(), in call order
    expect,     \* expect[k]: what the caller did to its k-th copy, as a value (history)
    nmut,       \* number of caller mutations so far
    memo,       \* results of completed seeded generate() calls, by <<w, h, seed>> (history)
    papp,       \* per instance: self.path_appearance, None or <<appearance>>
    alone,      \* per instance: no other generate() overlapped its running/last one (history)
    found,      \* what a direct call of _find_solution() returned or raised, <<>> before
    cube,       \* the CubeGrid object the caller holds, <<>> before it has one
    cubeOf,     \* the to_cube_grid() call that built cube, <<>> if none did (history)
    call,       \* the last call made on the CubeGrid and its outcome, <<>> before (history)
    out         \* the rows the last print_maze() printed

instVars == <<insts, args, pc, err, width, height, maze, sol, stack, seed, ngen, calls, links>>
heapVars == <<heap, held, expect, nmut>>
cfgVars == <<papp, alone>>
viewVars == <<found, cube, cubeOf, call, out>>
vars == <<instVars, rng, heapVars, memo, cfgVars, viewVars>>

\* ------------------------------------------------------------ __init__
\* (mutant) the parity check made before the size check.
InitError_ParityFirst(w, h) ==
    IF w % 2 = 0 \/ h % 2 = 0 THEN "Maze dimensions must be odd numbers"
    ELSE IF w < 3 \/ h < 3 THEN "Maze dimensions must be at least 3x3"
    ELSE ""

\* The checks of __init__, in source order: the message raised, "" if none.
InitError(w, h) ==
    IF w < 3 \/ h < 3 THEN "Maze dimensions must be at least 3x3"
    ELSE IF w % 2 = 0 \/ h % 2 = 0 THEN "Maze dimensions must be odd numbers"
    ELSE ""

\* [[True for _ in range(width)] for _ in range(height)]
AllWalls(w, h) == [y \in 0..(h - 1) |-> [x \in 0..(w - 1) |-> TRUE]]

\* Allocation of a new list object holding s.
Alloc(hp, s) == Append(hp, s)

\* MazeGenerator(width, height, path_appearance=pa); wall_appearance and
\* solution_appearance are left to their defaults.
ConstructWith(i, w, h, pa) ==
    /\ i \in insts
    /\ pc[i] = "none"
    /\ args' = [args EXCEPT ![i] = <<w, h>>]
    /\ IF InitError(w, h) # ""
       THEN /\ pc' = [pc EXCEPT ![i] = "error"]
            /\ err' = [err EXCEPT ![i] = InitError(w, h)]
            /\ UNCHANGED <<width, height, maze, sol, heap, papp>>
       ELSE /\ pc' = [pc EXCEPT ![i] = "idle"]
            /\ width' = [width EXCEPT ![i] = w]
            /\ height' = [height EXCEPT ![i] = h]
            /\ papp' = [papp EXCEPT ![i] = pa]
            /\ maze' = [maze EXCEPT ![i] = AllWalls(w, h)]
            /\ heap' = Alloc(heap, <<>>)
            /\ sol' = [sol EXCEPT ![i] = Len(heap) + 1]
            /\ UNCHANGED err
    /\ UNCHANGED <<viewVars, alone, insts, stack, seed, ngen, calls, links, rng, held, expect, nmut, memo>>

\* MazeGenerator(width, height): path_appearance defaults to None.
Construct(i, w, h) == ConstructWith(i, w, h, None)

\* ------------------------------------------------- the random generator
\* (mutant) the seed is applied only to a generator never seeded before.
SeedState_OnlyOnce(sd) == IF rng = OS THEN <<sd[1] % RngStates>> ELSE rng

\* random.seed(seed): the generator's state becomes a function of the seed.
\* (The Mersenne Twister is abstracted to a generator with RngStates states.)
SeedState(sd) == <<sd[1] % RngStates>>

\* One step of the seeded generator.
RngStep(s) == (5 * s + 3) % RngStates

\* x[a], x[b] = x[b], x[a]  (1-based here)
Swap(x, a, b) == [x EXCEPT ![a] = x[b], ![b] = x[a]]

\* random.shuffle(x) on a 4-element list: for i in (3, 2, 1): j = randbelow(i + 1);
\* x[i], x[j] = x[j], x[i].  j3, j2, j1 are the three draws.
ShuffleWith(x, j3, j2, j1) == Swap(Swap(Swap(x, 4, j3 + 1), 3, j2 + 1), 2, j1 + 1)

\* The outcomes random.shuffle(x) can have in generator state r, each with the
\* state it leaves: any draws when the generator was seeded from the OS, the
\* draws the state determines after random.seed.
ShuffleOutcomes(x, r) ==
    IF r = OS
    THEN {[list |-> ShuffleWith(x, j3, j2, j1), rng |-> OS] :
              j3 \in 0..3, j2 \in 0..2, j1 \in 0..1}
    ELSE LET s1 == RngStep(r[1])
             s2 == RngStep(s1)
             s3 == RngStep(s2)
         IN {[list |-> ShuffleWith(x, s1 % 4, s2 % 3, s3 % 2), rng |-> <<s3>>]}

\* ------------------------------------------------------------ generate
\* (mutant) the sign of the third direction is wrong: no step down.
CarveDirections_NoDown == <<<<0, -2>>, <<2, 0>>, <<0, -2>>, <<-2, 0>>>>

\* directions = [(0, -2), (2, 0), (0, 2), (-2, 0)]
CarveDirections == <<<<0, -2>>, <<2, 0>>, <<0, 2>>, <<-2, 0>>>>

\* (mutant) the cell to the left is marked instead of the cell itself.
CarveMark_Left(x, y) == <<x - 1, y>>

\* The cell _carve_path(x, y) marks as path on entry.
CarveMark(x, y) == <<x, y>>

\* (mutant) the destination is opened instead of the cell in between.
Between_Destination(x, y, d) == <<x + d[1], y + d[2]>>

\* The cell opened between (x, y) and its neighbour in direction d:
\* (x + dx // 2, y + dy // 2).
Between(x, y, d) == <<x + d[1] \div 2, y + d[2] \div 2>>

\* 0 <= nx < self.width and 0 <= ny < self.height
InBounds(i, nx, ny) == 0 <= nx /\ nx < width[i] /\ 0 <= ny /\ ny < height[i]

\* (mutant) the wall test looks at the cell in between, not at the destination.
CanCarve_TestsBetween(i, x, y, d) ==
    LET nx == x + d[1]
        ny == y + d[2]
    IN InBounds(i, nx, ny) /\ maze[i][y + d[2] \div 2][x + d[1] \div 2]

\* The test of _carve_path's loop at (x, y) for direction d: the destination
\* (nx, ny) = (x + dx, y + dy) is in bounds and still a wall.
CanCarve(i, x, y, d) ==
    LET nx == x + d[1]
        ny == y + d[2]
    IN InBounds(i, nx, ny) /\ maze[i][ny][nx]

\* self._maze[c[2]][c[1]] = False
Open(m, c) == [m EXCEPT ![c[2]][c[1]] = FALSE]

\* (mutant) the carve starts in the corner.
CarveStart_Corner == <<0, 0>>

\* start = (1, 1)
CarveStart == <<1, 1>>

Frame(x, y) == [x |-> x, y |-> y, dirs |-> <<>>, pos |-> "enter"]
Top(i) == stack[i][Len(stack[i])]
Pop(s) == SubSeq(s, 1, Len(s) - 1)

\* (mutant) generate(seed) without the reset of the wall field.
Generate_NoReset(i, sd) ==
    /\ i \in insts
    /\ pc[i] = "idle"
    /\ ngen[i] < MaxGenerates
    /\ rng' = IF sd # None THEN SeedState(sd) ELSE rng
    /\ stack' = [stack EXCEPT ![i] = <<Frame(CarveStart[1], CarveStart[2])>>]
    /\ pc' = [pc EXCEPT ![i] = "carve"]
    /\ err' = [err EXCEPT ![i] = ""]
    /\ seed' = [seed EXCEPT ![i] = sd]
    /\ ngen' = [ngen EXCEPT ![i] = @ + 1]
    /\ calls' = [calls EXCEPT ![i] = <<>>]
    /\ links' = [links EXCEPT ![i] = {}]
    /\ alone' = [j \in Insts |->
                    IF j = i THEN \A k \in Insts \ {i} : pc[k] \notin {"carve", "open", "solve"}
                    ELSE alone[j] /\ pc[j] \notin {"carve", "open", "solve"}]
    /\ UNCHANGED <<viewVars, papp, insts, args, width, height, maze, sol, heapVars, memo>>

\* generate(seed), up to the call _carve_path(1, 1).
Generate(i, sd) ==
    /\ i \in insts
    /\ pc[i] = "idle"
    /\ ngen[i] < MaxGenerates
    /\ rng' = IF sd # None THEN SeedState(sd) ELSE rng
    /\ maze' = [maze EXCEPT ![i] = AllWalls(width[i], height[i])]
    /\ stack' = [stack EXCEPT ![i] = <<Frame(CarveStart[1], CarveStart[2])>>]
    /\ pc' = [pc EXCEPT ![i] = "carve"]
    /\ err' = [err EXCEPT ![i] = ""]
    /\ seed' = [seed EXCEPT ![i] = sd]
    /\ ngen' = [ngen EXCEPT ![i] = @ + 1]
    /\ calls' = [calls EXCEPT ![i] = <<>>]
    /\ links' = [links EXCEPT ![i] = {}]
    /\ alone' = [j \in Insts |->
                    IF j = i THEN \A k \in Insts \ {i} : pc[k] \notin {"carve", "open", "solve"}
                    ELSE alone[j] /\ pc[j] \notin {"carve", "open", "solve"}]
    /\ UNCHANGED <<viewVars, papp, insts, args, width, height, sol, heapVars, memo>>

\* Entry of _carve_path(x, y): mark the cell, build and shuffle the directions.
CarveEnter(i) ==
    /\ pc[i] = "carve"
    /\ Top(i).pos = "enter"
    /\ \E o \in ShuffleOutcomes(CarveDirections, rng) :
          /\ rng' = o.rng
          /\ stack' = [stack EXCEPT ![i][Len(stack[i])] =
                          [@ EXCEPT !.dirs = o.list, !.pos = "loop"]]
    /\ maze' = [maze EXCEPT ![i] = Open(@, CarveMark(Top(i).x, Top(i).y))]
    /\ calls' = [calls EXCEPT ![i] = Append(@, <<Top(i).x, Top(i).y>>)]
    /\ UNCHANGED <<viewVars, papp, alone, insts, args, pc, err, width, height, sol, seed, ngen, links,
                   heapVars, memo>>

\* One iteration of `for dx, dy in directions`.
CarveTry(i) ==
    /\ pc[i] = "carve"
    /\ Top(i).pos = "loop"
    /\ Top(i).dirs # <<>>
    /\ LET f == Top(i)
           d == Head(f.dirs)
           nx == f.x + d[1]
           ny == f.y + d[2]
           rest == [stack[i] EXCEPT ![Len(stack[i])].dirs = Tail(f.dirs)]
       IN IF CanCarve(i, f.x, f.y, d)
          THEN /\ maze' = [maze EXCEPT ![i] = Open(@, Between(f.x, f.y, d))]
               /\ links' = [links EXCEPT ![i] = @ \cup {Between(f.x, f.y, d)}]
               /\ stack' = [stack EXCEPT ![i] = Append(rest, Frame(nx, ny))]
          ELSE /\ stack' = [stack EXCEPT ![i] = rest]
               /\ UNCHANGED <<maze, links>>
    /\ UNCHANGED <<viewVars, papp, alone, insts, args, pc, err, width, height, sol, seed, ngen, calls,
                   rng, heapVars, memo>>

\* (mutant) the exhausted loop starts over instead of returning.
CarveReturn_Restarts(i) ==
    /\ pc[i] = "carve"
    /\ Top(i).pos = "loop"
    /\ Top(i).dirs = <<>>
    /\ stack' = [stack EXCEPT ![i][Len(stack[i])] = [@ EXCEPT !.dirs = CarveDirections]]
    /\ UNCHANGED <<viewVars, papp, alone, insts, args, pc, err, width, height, maze, sol, seed,
                   ngen, calls, links, rng, heapVars, memo>>

\* The loop of the innermost _carve_path is exhausted: it returns.
CarveReturn(i) ==
    /\ pc[i] = "carve"
    /\ Top(i).pos = "loop"
    /\ Top(i).dirs = <<>>
    /\ stack' = [stack EXCEPT ![i] = Pop(@)]
    /\ pc' = [pc EXCEPT ![i] = IF Len(stack[i]) = 1 THEN "open" ELSE "carve"]
    /\ UNCHANGED <<viewVars, papp, alone, insts, args, err, width, height, maze, sol, seed, ngen, calls,
                   links, rng, heapVars, memo>>

Entry == <<1, 0>>
Exit(i) == <<width[i] - 2, height[i] - 1>>

\* (mutant) the exit is opened one column too far right, in the corner.
OpenEntryExit_CornerExit(i) ==
    /\ pc[i] = "open"
    /\ maze' = [maze EXCEPT ![i] = Open(Open(@, Entry), <<width[i] - 1, height[i] - 1>>)]
    /\ pc' = [pc EXCEPT ![i] = "solve"]
    /\ UNCHANGED <<viewVars, papp, alone, insts, args, err, width, height, sol, stack, seed, ngen, calls,
                   links, rng, heapVars, memo>>

\* self._maze[0][1] = False; self._maze[self.height - 1][self.width - 2] = False
OpenEntryExit(i) ==
    /\ pc[i] = "open"
    /\ maze' = [maze EXCEPT ![i] = Open(Open(@, Entry), Exit(i))]
    /\ pc' = [pc EXCEPT ![i] = "solve"]
    /\ UNCHANGED <<viewVars, papp, alone, insts, args, err, width, height, sol, stack, seed, ngen, calls,
                   links, rng, heapVars, memo>>

\* ------------------------------------------------------ _find_solution
\* for dx, dy in [(0, -1), (1, 0), (0, 1), (-1, 0)]
SolverDirections == <<<<0, -1>>, <<1, 0>>, <<0, 1>>, <<-1, 0>>>>

\* (mutant) the BFS does not test whether the neighbour is a wall.
RECURSIVE Expand_ThroughWalls(_, _, _, _, _, _, _, _, _)
Expand_ThroughWalls(m, w, h, ds, c, p, k, q, v) ==
    IF k > Len(ds) THEN [queue |-> q, visited |-> v]
    ELSE LET nx == c[1] + ds[k][1]
             ny == c[2] + ds[k][2]
         IN IF 0 <= nx /\ nx < w /\ 0 <= ny /\ ny < h /\ <<nx, ny>> \notin v
            THEN Expand_ThroughWalls(m, w, h, ds, c, p, k + 1,
                        Append(q, [cell |-> <<nx, ny>>, path |-> Append(p, <<nx, ny>>)]),
                        v \cup {<<nx, ny>>})
            ELSE Expand_ThroughWalls(m, w, h, ds, c, p, k + 1, q, v)

\* (mutant) the extended path repeats the current cell: path + [(x, y), (nx, ny)].
RECURSIVE Expand_RepeatsCell(_, _, _, _, _, _, _, _, _)
Expand_RepeatsCell(m, w, h, ds, c, p, k, q, v) ==
    IF k > Len(ds) THEN [queue |-> q, visited |-> v]
    ELSE LET nx == c[1] + ds[k][1]
             ny == c[2] + ds[k][2]
         IN IF 0 <= nx /\ nx < w /\ 0 <= ny /\ ny < h
               /\ ~m[ny][nx] /\ <<nx, ny>> \notin v
            THEN Expand_RepeatsCell(m, w, h, ds, c, p, k + 1,
                        Append(q, [cell |-> <<nx, ny>>,
                                   path |-> Append(Append(p, c), <<nx, ny>>)]),
                        v \cup {<<nx, ny>>})
            ELSE Expand_RepeatsCell(m, w, h, ds, c, p, k + 1, q, v)

\* The inner for loop of the BFS at cell c reached by path p, from direction
\* number k on: q is the queue, v the visited set.
RECURSIVE Expand(_, _, _, _, _, _, _, _, _)
Expand(m, w, h, ds, c, p, k, q, v) ==
    IF k > Len(ds) THEN [queue |-> q, visited |-> v]
    ELSE LET nx == c[1] + ds[k][1]
             ny == c[2] + ds[k][2]
         IN IF 0 <= nx /\ nx < w /\ 0 <= ny /\ ny < h
               /\ ~m[ny][nx] /\ <<nx, ny>> \notin v
            THEN Expand(m, w, h, ds, c, p, k + 1,
                        Append(q, [cell |-> <<nx, ny>>, path |-> Append(p, <<nx, ny>>)]),
                        v \cup {<<nx, ny>>})
            ELSE Expand(m, w, h, ds, c, p, k + 1, q, v)

\* (mutant) the loop takes the newest queue entry: queue.pop().
RECURSIVE Search_Lifo(_, _, _, _, _, _, _)
Search_Lifo(m, w, h, ds, end, q, v) ==
    IF q = <<>> THEN [raised |-> TRUE, path |-> <<>>]
    ELSE LET cur == q[Len(q)]
         IN IF cur.cell = end THEN [raised |-> FALSE, path |-> cur.path]
            ELSE LET e == Expand(m, w, h, ds, cur.cell, cur.path, 1,
                                 SubSeq(q, 1, Len(q) - 1), v)
                 IN Search_Lifo(m, w, h, ds, end, e.queue, e.visited)

\* The while loop of the BFS: the path returned, or the RuntimeError raised
\* when the queue runs empty.
RECURSIVE Search(_, _, _, _, _, _, _)
Search(m, w, h, ds, end, q, v) ==
    IF q = <<>> THEN [raised |-> TRUE, path |-> <<>>]
    ELSE LET cur == Head(q)
         IN IF cur.cell = end THEN [raised |-> FALSE, path |-> cur.path]
            ELSE LET e == Expand(m, w, h, ds, cur.cell, cur.path, 1, Tail(q), v)
                 IN Search(m, w, h, ds, end, e.queue, e.visited)

\* (mutant) the queue starts with an empty path: deque([(start, [])]).
FindSolution_EmptyStart(m, w, h, ds) ==
    Search(m, w, h, ds, <<w - 2, h - 1>>,
           <<[cell |-> <<1, 0>>, path |-> <<>>]>>, {<<1, 0>>})

\* _find_solution() on wall field m of size w x h, exploring directions ds.
FindSolution(m, w, h, ds) ==
    Search(m, w, h, ds, <<w - 2, h - 1>>,
           <<[cell |-> <<1, 0>>, path |-> <<<<1, 0>>>>]>>, {<<1, 0>>})

\* The result generate() stores for a seeded run.
Result(i) == [maze |-> maze[i], path |-> heap[sol[i]]]

\* List r is still referenced by a caller.
Referenced(r) == \E k \in 1..Len(held) : held[k].ref = r

\* self._solution_path = self._find_solution(), the last statement of generate().
\* The list the attribute held before is freed when nothing else refers to it,
\* and the new list then takes its place in the heap.
Solve(i) ==
    /\ pc[i] = "solve"
    /\ LET r == FindSolution(maze[i], width[i], height[i], SolverDirections)
       IN IF r.raised
          THEN /\ err' = [err EXCEPT ![i] = "No solution path found - maze generation failed"]
               /\ UNCHANGED <<sol, heap, memo>>
          ELSE /\ IF Referenced(sol[i])
                  THEN /\ heap' = Alloc(heap, r.path)
                       /\ sol' = [sol EXCEPT ![i] = Len(heap) + 1]
                  ELSE /\ heap' = [heap EXCEPT ![sol[i]] = r.path]
                       /\ UNCHANGED sol
               /\ memo' = IF seed[i] = None THEN memo
                          ELSE memo \cup {[w |-> width[i], h |-> height[i], seed |-> seed[i],
                                           maze |-> maze[i], path |-> r.path,
                                           alone |-> alone[i]]}
               /\ UNCHANGED err
    /\ pc' = [pc EXCEPT ![i] = "idle"]
    /\ UNCHANGED <<viewVars, papp, alone, insts, args, width, height, maze, stack, seed, ngen, calls, links,
                   rng, held, expect, nmut>>

\* ---------------------------------------------------- get_solution_path
\* (mutant) the list itself is returned: return self._solution_path
CopyList_Alias(hp, r) == [heap |-> hp, ref |-> r]

\* list.copy(): a new list object with the same elements.
CopyList(hp, r) == [heap |-> Alloc(hp, hp[r]), ref |-> Len(hp) + 1]

\* get_solution_path(): return self._solution_path.copy()
GetSolutionPath(i) ==
    /\ pc[i] = "idle"
    /\ Len(held) < MaxCopies
    /\ LET c == CopyList(heap, sol[i])
       IN /\ heap' = c.heap
          /\ held' = Append(held, [inst |-> i, ref |-> c.ref])
          /\ expect' = Append(expect, heap[sol[i]])
    /\ UNCHANGED <<viewVars, cfgVars, instVars, rng, nmut, memo>>

\* What a caller may do to a list it was handed.
ListAppend(s, e) == Append(s, e)
ListPop(s) == SubSeq(s, 1, Len(s) - 1)
ListSetItem(s, n, e) == [s EXCEPT ![n] = e]

Junk == <<0, 0>>

\* The caller mutates the k-th list it got from get_solution_path().
MutateAppend(k) ==
    /\ k \in 1..Len(held)
    /\ nmut < MaxMutations
    /\ heap' = [heap EXCEPT ![held[k].ref] = ListAppend(@, Junk)]
    /\ expect' = [expect EXCEPT ![k] = ListAppend(@, Junk)]
    /\ nmut' = nmut + 1
    /\ UNCHANGED <<viewVars, cfgVars, instVars, rng, held, memo>>

MutatePop(k) ==
    /\ k \in 1..Len(held)
    /\ nmut < MaxMutations
    /\ heap[held[k].ref] # <<>>
    /\ heap' = [heap EXCEPT ![held[k].ref] = ListPop(@)]
    /\ expect' = [expect EXCEPT ![k] = ListPop(@)]
    /\ nmut' = nmut + 1
    /\ UNCHANGED <<viewVars, cfgVars, instVars, rng, held, memo>>

MutateSetItem(k) ==
    /\ k \in 1..Len(held)
    /\ nmut < MaxMutations
    /\ heap[held[k].ref] # <<>>
    /\ heap' = [heap EXCEPT ![held[k].ref] = ListSetItem(@, 1, Junk)]
    /\ expect' = [expect EXCEPT ![k] = ListSetItem(@, 1, Junk)]
    /\ nmut' = nmut + 1
    /\ UNCHANGED <<viewVars, cfgVars, instVars, rng, held, memo>>

\* ------------------------------------------------------------- CubeGrid
\* A CubeGrid object is a record: dims (the dimensions), grid (the boolean
\* array _grid, by position) and app (the dict _appearances, the set of its
\* <<key, value>> items).  Appearances are named by strings.

\* self._default_appearance = CubeAppearance()
DefaultAppearance == "default"

Positions(dims) ==
    {<<x, y, z>> : x \in 0..(dims[1] - 1), y \in 0..(dims[2] - 1), z \in 0..(dims[3] - 1)}

\* The ValueError of CubeGrid.__init__, "" when it raises none.
CubeGridError(dims) ==
    IF \E k \in 1..3 : dims[k] <= 0 THEN "All dimensions must be positive" ELSE ""

\* The object CubeGrid(dims) builds: nothing occupied, no appearance stored.
CubeGrid(dims) ==
    [dims |-> dims,
     grid |-> [p \in Positions(dims) |-> FALSE],
     app |-> {}]

\* _is_valid_position(position)
IsValidPosition(g, pos) == \A k \in 1..3 : 0 <= pos[k] /\ pos[k] < g.dims[k]

\* The message of the bounds ValueError of set_cube and get_cube.
OutsideBounds == "outside grid bounds"

\* dict: the keys, d[key] = val, del d[key], d.get(key, default)
DictKeys(d) == {e[1] : e \in d}
DictDel(d, key) == {e \in d : e[1] # key}
DictSet(d, key, val) == DictDel(d, key) \cup {<<key, val>>}
DictGet(d, key, default) ==
    IF key \in DictKeys(d) THEN (CHOOSE e \in d : e[1] = key)[2] ELSE default

\* (mutant) set_cube that stores the appearance of a cube it is asked to clear.
set_cube_KeepsAppearance(g, pos, occupied, appearance) ==
    IF ~IsValidPosition(g, pos) THEN [raised |-> OutsideBounds, grid |-> g]
    ELSE [raised |-> "",
          grid |-> [g EXCEPT !.grid[pos] = occupied,
                             !.app = IF appearance # None
                                     THEN DictSet(g.app, pos, appearance[1])
                                     ELSE g.app]]

\* set_cube(position, occupied, appearance): the error it raises ("" if none)
\* and the grid afterwards.
set_cube(g, pos, occupied, appearance) ==
    IF ~IsValidPosition(g, pos) THEN [raised |-> OutsideBounds, grid |-> g]
    ELSE [raised |-> "",
          grid |-> [g EXCEPT !.grid[pos] = occupied,
                             !.app = IF occupied /\ appearance # None
                                     THEN DictSet(g.app, pos, appearance[1])
                                     ELSE IF ~occupied /\ pos \in DictKeys(g.app)
                                     THEN DictDel(g.app, pos)
                                     ELSE g.app]]

\* get_cube(position): the error it raises and the value it returns.
get_cube(g, pos) ==
    IF ~IsValidPosition(g, pos) THEN [raised |-> OutsideBounds, ret |-> <<>>]
    ELSE [raised |-> "", ret |-> <<g.grid[pos]>>]

\* get_appearance(position): self._appearances.get(position, default), with
\* no test of the position.
get_appearance(g, pos) ==
    [raised |-> "",
     ret |-> <<DictGet(g.app, pos, DefaultAppearance)>>]

\* (mutant) clear that empties the array and keeps the dict.
clear_KeepsAppearances(g) == [g EXCEPT !.grid = [p \in DOMAIN g.grid |-> FALSE]]

\* clear(): self._grid.fill(False); self._appearances.clear()
clear(g) == [g EXCEPT !.grid = [p \in DOMAIN g.grid |-> FALSE], !.app = {}]

\* The position with number k in the order np.where lists the array: the
\* first index slowest, the last fastest.
PositionAt(dims, k) == <<k \div (dims[2] * dims[3]), (k \div dims[3]) % dims[2], k % dims[3]>>

\* get_occupied_positions(): list(zip(*np.where(self._grid))), from position
\* number k on, after the list acc.
RECURSIVE OccupiedFrom(_, _, _)
OccupiedFrom(g, k, acc) ==
    IF k = g.dims[1] * g.dims[2] * g.dims[3] THEN acc
    ELSE OccupiedFrom(g, k + 1, IF g.grid[PositionAt(g.dims, k)]
                                THEN Append(acc, PositionAt(g.dims, k)) ELSE acc)

get_occupied_positions(g) == OccupiedFrom(g, 0, <<>>)

\* ------------------------------------------------------- MeshGenerator
\* cube_size, at its default 1.0
CubeSize == 1

\* _generate_cube_geometry(position): the 8 corners and the 12 triangles.
CubeVertices(pos) ==
    LET x0 == pos[1] * CubeSize
        y0 == pos[2] * CubeSize
        z0 == pos[3] * CubeSize
        x1 == x0 + CubeSize
        y1 == y0 + CubeSize
        z1 == z0 + CubeSize
    IN << <<x0, y0, z0>>, <<x1, y0, z0>>, <<x1, y1, z0>>, <<x0, y1, z0>>,
          <<x0, y0, z1>>, <<x1, y0, z1>>, <<x1, y1, z1>>, <<x0, y1, z1>> >>

CubeFaces ==
    << <<0, 1, 2>>, <<0, 2, 3>>, <<4, 6, 5>>, <<4, 7, 6>>,
       <<0, 3, 7>>, <<0, 7, 4>>, <<1, 5, 6>>, <<1, 6, 2>>,
       <<0, 4, 5>>, <<0, 5, 1>>, <<3, 2, 6>>, <<3, 6, 7>> >>

\* [f + vertex_offset for f in face] for each face
OffsetFaces(fs, offset) == [n \in 1..Len(fs) |-> [j \in 1..3 |-> fs[n][j] + offset]]

\* (mutant) the offset advances by the number of faces of the cube.
NextOffset_ByFaces(offset, pos) == offset + Len(CubeFaces)

\* vertex_offset += len(cube_vertices)
NextOffset(offset, pos) == offset + Len(CubeVertices(pos))

\* The loop of generate_mesh over the occupied positions ps, from the k-th on:
\* m holds the three lists so far, offset is vertex_offset.
RECURSIVE MeshLoop(_, _, _, _, _)
MeshLoop(g, ps, k, m, offset) ==
    IF k > Len(ps) THEN m
    ELSE MeshLoop(g, ps, k + 1,
                  [vertices |-> m.vertices \o CubeVertices(ps[k]),
                   faces |-> m.faces \o OffsetFaces(CubeFaces, offset),
                   colors |-> m.colors \o [n \in 1..Len(CubeVertices(ps[k])) |->
                                              get_appearance(g, ps[k]).ret[1]]],
                  NextOffset(offset, ps[k]))

\* generate_mesh(grid): the vertices, the faces and the colours.
generate_mesh(g) ==
    MeshLoop(g, get_occupied_positions(g), 1,
             [vertices |-> <<>>, faces |-> <<>>, colors |-> <<>>], 0)

\* ------------------------------------------------- using a CubeGrid directly
\* The record of a call on the CubeGrid: the method, its position argument,
\* its other arguments, the error it raised ("" if none), what it returned,
\* and whether the grid is another after it.
Called(op, pos, rest, raised, ret, after) ==
    [op |-> op, pos |-> pos, args |-> rest, raised |-> raised, ret |-> ret,
     changed |-> after # cube]

\* grid = CubeGrid(dims)
NewCubeGrid(dims) ==
    /\ cube = <<>>
    /\ cube' = IF CubeGridError(dims) # "" THEN cube ELSE CubeGrid(dims)
    /\ call' = Called("CubeGrid", dims, <<>>, CubeGridError(dims), <<>>, cube')
    /\ UNCHANGED <<found, cubeOf, out, cfgVars, instVars, rng, heapVars, memo>>

\* grid.set_cube(pos, occupied, appearance)
SetCube(pos, occupied, appearance) ==
    /\ cube # <<>>
    /\ LET r == set_cube(cube, pos, occupied, appearance)
       IN /\ call' = Called("set_cube", pos, <<occupied, appearance>>, r.raised, <<>>, r.grid)
          /\ cube' = r.grid
    /\ UNCHANGED <<found, cubeOf, out, cfgVars, instVars, rng, heapVars, memo>>

\* grid.get_cube(pos)
GetCube(pos) ==
    /\ cube # <<>>
    /\ LET r == get_cube(cube, pos)
       IN call' = Called("get_cube", pos, <<>>, r.raised, r.ret, cube)
    /\ UNCHANGED <<found, cube, cubeOf, out, cfgVars, instVars, rng, heapVars, memo>>

\* grid.get_appearance(pos)
GetAppearance(pos) ==
    /\ cube # <<>>
    /\ LET r == get_appearance(cube, pos)
       IN call' = Called("get_appearance", pos, <<>>, r.raised, r.ret, cube)
    /\ UNCHANGED <<found, cube, cubeOf, out, cfgVars, instVars, rng, heapVars, memo>>

\* grid.clear()
Clear ==
    /\ cube # <<>>
    /\ cube' = clear(cube)
    /\ call' = Called("clear", <<>>, <<>>, "", <<>>, cube')
    /\ UNCHANGED <<found, cubeOf, out, cfgVars, instVars, rng, heapVars, memo>>

\* MeshGenerator().generate_mesh(grid)
GenerateMesh ==
    /\ cube # <<>>
    /\ call' = Called("generate_mesh", <<>>, <<>>, "", generate_mesh(cube), cube)
    /\ UNCHANGED <<found, cube, cubeOf, out, cfgVars, instVars, rng, heapVars, memo>>

\* ------------------------------------------------- reading a MazeGenerator
\* wall_appearance and solution_appearance as __init__ sets them by default;
\* both are objects, hence true in a condition.
WallAppearance == "wall"
SolutionAppearance == "solution"

\* (mutant) the solution set is built whatever the flag says.
SolutionSet_Always(path, include) == {path[n] : n \in 1..Len(path)}

\* solution_set = set(self._solution_path) if include_solution else set()
SolutionSet(path, include) == IF include THEN {path[n] : n \in 1..Len(path)} ELSE {}

\* (mutant) the loop body of to_cube_grid with the path_appearance test before
\* the solution test.
ToCubeGridCell_PathFirst(m, pa, ss, x, y, g) ==
    IF m[y][x] THEN set_cube(g, <<x, 0, y>>, TRUE, Some(WallAppearance))
    ELSE IF pa # None THEN set_cube(g, <<x, 0, y>>, TRUE, pa)
    ELSE IF <<x, y>> \in ss THEN set_cube(g, <<x, 0, y>>, TRUE, Some(SolutionAppearance))
    ELSE [raised |-> "", grid |-> g]

\* The body of the loop of to_cube_grid for cell (x, y): the error its
\* set_cube call raises ("" if none) and the grid after it.
ToCubeGridCell(m, pa, ss, x, y, g) ==
    IF m[y][x] THEN set_cube(g, <<x, 0, y>>, TRUE, Some(WallAppearance))
    ELSE IF <<x, y>> \in ss THEN set_cube(g, <<x, 0, y>>, TRUE, Some(SolutionAppearance))
    ELSE IF pa # None THEN set_cube(g, <<x, 0, y>>, TRUE, pa)
    ELSE [raised |-> "", grid |-> g]

\* The loop of to_cube_grid over the cells, rows outermost: k counts the cells
\* done, r is the outcome so far; an error raised by set_cube ends the loop.
RECURSIVE ToCubeGridLoop(_, _, _, _, _, _, _)
ToCubeGridLoop(m, w, h, pa, ss, k, r) ==
    IF r.raised # "" \/ k = w * h THEN r
    ELSE ToCubeGridLoop(m, w, h, pa, ss, k + 1,
                        ToCubeGridCell(m, pa, ss, k % w, k \div w, r.grid))

\* to_cube_grid(include_solution); the caller keeps the grid it returns.
ToCubeGrid(i, include) ==
    /\ i \in insts
    /\ pc[i] = "idle"
    /\ LET r == ToCubeGridLoop(maze[i], width[i], height[i], papp[i],
                               SolutionSet(heap[sol[i]], include), 0,
                               [raised |-> "", grid |-> CubeGrid(<<width[i], 1, height[i]>>)])
       IN /\ cube' = IF r.raised = "" THEN r.grid ELSE cube
          /\ cubeOf' = [inst |-> i, include |-> include, gen |-> ngen[i],
                        raised |-> r.raised]
    /\ UNCHANGED <<found, call, out, cfgVars, instVars, rng, heapVars, memo>>

\* One printed row of print_maze: "o" on the solution, "#" for a wall (the
\* block character), " " for an open cell.
PrintRow(m, w, ss, y) ==
    [x1 \in 1..w |-> IF <<x1 - 1, y>> \in ss THEN "o"
                     ELSE IF m[y][x1 - 1] THEN "#" ELSE " "]

\* (mutant) print_maze that also writes the marked cells into the wall field.
PrintMaze_Marks(i, show) ==
    /\ i \in insts
    /\ pc[i] = "idle"
    /\ out' = [y1 \in 1..height[i] |->
                  PrintRow(maze[i], width[i], SolutionSet(heap[sol[i]], show), y1 - 1)]
    /\ maze' = [maze EXCEPT ![i] =
                  [y \in 0..(height[i] - 1) |-> [x \in 0..(width[i] - 1) |->
                      maze[i][y][x] \/ <<x, y>> \in SolutionSet(heap[sol[i]], show)]]]
    /\ UNCHANGED <<found, cube, cubeOf, call, cfgVars, insts, args, pc, err, width, height,
                   sol, stack, seed, ngen, calls, links, rng, heapVars, memo>>

\* print_maze(show_solution)
PrintMaze(i, show) ==
    /\ i \in insts
    /\ pc[i] = "idle"
    /\ out' = [y1 \in 1..height[i] |->
                  PrintRow(maze[i], width[i], SolutionSet(heap[sol[i]], show), y1 - 1)]
    /\ UNCHANGED <<found, cube, cubeOf, call, cfgVars, instVars, rng, heapVars, memo>>

\* A call of _find_solution() by itself, outside generate(): the caller sees
\* the path it returns or the RuntimeError it raises.
FindSolutionCall(i) ==
    /\ i \in insts
    /\ pc[i] = "idle"
    /\ found' = FindSolution(maze[i], width[i], height[i], SolverDirections)
    /\ UNCHANGED <<cube, cubeOf, call, out, cfgVars, instVars, rng, heapVars, memo>>

\* ---------------------------------------------------------------- Init
InitWith(live) ==
    /\ insts = live
    /\ args = [i \in Insts |-> <<>>]
    /\ pc = [i \in Insts |-> "none"]
    /\ err = [i \in Insts |-> ""]
    /\ width = [i \in Insts |-> 0]
    /\ height = [i \in Insts |-> 0]
    /\ maze = [i \in Insts |-> <<>>]
    /\ sol = [i \in Insts |-> 0]
    /\ stack = [i \in Insts |-> <<>>]
    /\ seed = [i \in Insts |-> None]
    /\ ngen = [i \in Insts |-> 0]
    /\ calls = [i \in Insts |-> <<>>]
    /\ links = [i \in Insts |-> {}]
    /\ rng = OS
    /\ heap = <<>>
    /\ held = <<>>
    /\ expect = <<>>
    /\ nmut = 0
    /\ memo = {}
    /\ papp = [i \in Insts |-> None]
    /\ alone = [i \in Insts |-> TRUE]
    /\ found = <<>>
    /\ cube = <<>>
    /\ cubeOf = <<>>
    /\ call = <<>>
    /\ out = <<>>

\* Every wall field of size w x h.
Grids(w, h) == [0..(h - 1) -> [0..(w - 1) -> BOOLEAN]]

\* Instance 1 as MazeGenerator(w, h) leaves it, with the wall field set to g.
InitGrid(w, h, g) ==
    /\ insts = {1}
    /\ args = [i \in Insts |-> IF i = 1 THEN <<w, h>> ELSE <<>>]
    /\ pc = [i \in Insts |-> IF i = 1 THEN "idle" ELSE "none"]
    /\ err = [i \in Insts |-> ""]
    /\ width = [i \in Insts |-> IF i = 1 THEN w ELSE 0]
    /\ height = [i \in Insts |-> IF i = 1 THEN h ELSE 0]
    /\ maze = [i \in Insts |-> IF i = 1 THEN g ELSE <<>>]
    /\ sol = [i \in Insts |-> IF i = 1 THEN 1 ELSE 0]
    /\ stack = [i \in Insts |-> <<>>]
    /\ seed = [i \in Insts |-> None]
    /\ ngen = [i \in Insts |-> 0]
    /\ calls = [i \in Insts |-> <<>>]
    /\ links = [i \in Insts |-> {}]
    /\ rng = OS
    /\ heap = <<<<>>>>
    /\ held = <<>>
    /\ expect = <<>>
    /\ nmut = 0
    /\ memo = {}
    /\ papp = [i \in Insts |-> None]
    /\ alone = [i \in Insts |-> TRUE]
    /\ found = <<>>
    /\ cube = <<>>
    /\ cubeOf = <<>>
    /\ call = <<>>
    /\ out = <<>>

\* Instance j is inside generate().
InGenerate(j) == pc[j] \in {"carve", "open", "solve"}

\* ================================================================ claims
Generated(i) == i \in insts /\ pc[i] = "idle" /\ ngen[i] > 0
Path(i) == heap[sol[i]]
IsWall(i, c) == maze[i][c[2]][c[1]]
Cells(i) == {<<x, y>> : x \in 0..(width[i] - 1), y \in 0..(height[i] - 1)}
OpenCells(i) == {c \in Cells(i) : ~IsWall(i, c)}
Abs(n) == IF n < 0 THEN -n ELSE n
Manhattan(a, b) == Abs(a[1] - b[1]) + Abs(a[2] - b[2])
Range(q) == {q[n] : n \in 1..Len(q)}
Odd(n) == n % 2 = 1

\* C1: whenever generate() has returned, it returned normally: the solver did
\* not raise, and a non-empty solution path is stored.
C1_AlwaysSolvable ==
    \A i \in Insts : Generated(i) => err[i] = "" /\ Path(i) # <<>>

C1_Witness ==
    \E i \in Insts : Generated(i) /\ err[i] = "" /\ width[i] = 5 /\ height[i] = 5
                     /\ Len(Path(i)) > 3

\* C2: after generate() the stored path has at least 2 elements, starts at the
\* entry (1, 0) and ends at the exit (width-2, height-1).
C2_EntryToExit ==
    \A i \in Insts : Generated(i) =>
        /\ Len(Path(i)) >= 2
        /\ Path(i)[1] = <<1, 0>>
        /\ Path(i)[Len(Path(i))] = <<width[i] - 2, height[i] - 1>>

C2_Witness ==
    \E i \in Insts : Generated(i) /\ width[i] = 3 /\ height[i] = 5
                     /\ Path(i)[Len(Path(i))] = <<1, 4>>

\* C3: after generate() every element of the stored path is in bounds and open
\* in the wall field, and consecutive elements are at Manhattan distance 1.
C3_WalkOfOpenCells ==
    \A i \in Insts : Generated(i) =>
        /\ \A n \in 1..Len(Path(i)) : Path(i)[n] \in Cells(i) /\ ~IsWall(i, Path(i)[n])
        /\ \A n \in 1..(Len(Path(i)) - 1) : Manhattan(Path(i)[n], Path(i)[n + 1]) = 1

C3_Witness ==
    \E i \in Insts : Generated(i) /\ width[i] = 5 /\ height[i] = 3
                     /\ Len(Path(i)) = 5 /\ Path(i)[3] = <<2, 1>>

\* C4: after generate() no coordinate occurs twice in the stored path.
C4_SimplePath ==
    \A i \in Insts : Generated(i) =>
        \A n1, n2 \in 1..Len(Path(i)) : Path(i)[n1] = Path(i)[n2] => n1 = n2

C4_Witness ==
    \E i \in Insts : Generated(i) /\ width[i] = 5 /\ height[i] = 5
                     /\ Len(Path(i)) = 7 /\ <<1, 3>> \in Range(Path(i))

\* The open cells reachable from the cells of `seen` through 4-adjacent open cells.
RECURSIVE ReachOpen(_, _)
ReachOpen(i, seen) ==
    LET more == {c \in OpenCells(i) \ seen : \E b \in seen : Manhattan(b, c) = 1}
    IN IF more = {} THEN seen ELSE ReachOpen(i, seen \cup more)

OpenEdges(i) == {e \in SUBSET OpenCells(i) :
                    \E a, b \in e : e = {a, b} /\ Manhattan(a, b) = 1}

\* C5: after generate() the 4-adjacency graph of the open cells is a tree:
\* connected, with one edge less than it has nodes (so any two open cells are
\* joined by exactly one simple path).
C5_OpenCellsFormTree ==
    \A i \in Insts : Generated(i) =>
        /\ ReachOpen(i, {Entry}) = OpenCells(i)
        /\ Cardinality(OpenEdges(i)) = Cardinality(OpenCells(i)) - 1

C5_Witness ==
    \E i \in Insts : Generated(i) /\ width[i] = 5 /\ height[i] = 5
                     /\ IsWall(i, <<2, 1>>) /\ ~IsWall(i, <<2, 3>>)

\* The cells reachable from the start cell by 2-unit axis steps staying in bounds.
RECURSIVE Lattice(_, _)
Lattice(i, seen) ==
    LET more == {c \in Cells(i) \ seen :
                    \E b \in seen : Manhattan(b, c) = 2 /\ (b[1] = c[1] \/ b[2] = c[2])}
    IN IF more = {} THEN seen ELSE Lattice(i, seen \cup more)

\* C6: after generate() every cell reachable from (1, 1) by in-bounds 2-unit
\* axis steps was visited by the carver and is open.
C6_SpansLattice ==
    \A i \in Insts : Generated(i) =>
        \A c \in Lattice(i, {<<1, 1>>}) : c \in Range(calls[i]) /\ ~IsWall(i, c)

C6_Witness ==
    \E i \in Insts : Generated(i) /\ width[i] = 5 /\ height[i] = 5
                     /\ Cardinality(Lattice(i, {<<1, 1>>})) = 4
                     /\ calls[i][4] = <<1, 3>>

\* C7 as stated: every cell on which _carve_path is invoked has both
\* coordinates even, and every intervening cell it opens has an odd coordinate.
C7_Original_EvenRooms ==
    \A i \in Insts :
        /\ \A c \in Range(calls[i]) : ~Odd(c[1]) /\ ~Odd(c[2])
        /\ \A c \in links[i] : Odd(c[1]) \/ Odd(c[2])

\* C7 amended: every cell on which _carve_path is invoked has both coordinates
\* odd, and every intervening cell it opens has an odd coordinate (and an even one).
C7_OddRooms ==
    \A i \in Insts :
        /\ \A c \in Range(calls[i]) : Odd(c[1]) /\ Odd(c[2])
        /\ \A n \in 1..Len(stack[i]) : Odd(stack[i][n].x) /\ Odd(stack[i][n].y)
        /\ \A c \in links[i] : Odd(c[1]) # Odd(c[2])

C7_Witness ==
    \E i \in Insts : Len(calls[i]) = 4 /\ Cardinality(links[i]) = 3
                     /\ <<3, 2>> \in links[i] /\ <<3, 3>> \in Range(calls[i])

\* C9: the constructor raises exactly when a dimension is below 3 or even, and
\* then nothing of the instance exists; the message is 'at least 3x3' whenever
\* a dimension is below 3, and 'odd numbers' otherwise.
C9_ConstructorValidation ==
    \A i \in Insts : args[i] # <<>> =>
        LET w == args[i][1]
            h == args[i][2]
            small == w < 3 \/ h < 3
            even == w % 2 = 0 \/ h % 2 = 0
        IN /\ pc[i] = "error" <=> (small \/ even)
           /\ pc[i] = "error" =>
                 /\ maze[i] = <<>> /\ sol[i] = 0 /\ width[i] = 0 /\ height[i] = 0
                 /\ small => err[i] = "Maze dimensions must be at least 3x3"
                 /\ ~small => err[i] = "Maze dimensions must be odd numbers"
           /\ pc[i] # "error" => width[i] = w /\ height[i] = h

C9_Witness ==
    \E i \in Insts : pc[i] = "error" /\ args[i] = <<2, 5>>
                     /\ err[i] = "Maze dimensions must be at least 3x3"

\* C8: all completed generate(seed) runs with the same width, height and seed,
\* on either instance, stored the same wall field and the same solution path.
C8_Reproducible ==
    \A a, b \in memo :
        (a.w = b.w /\ a.h = b.h /\ a.seed = b.seed) => (a.maze = b.maze /\ a.path = b.path)

C8_Witness ==
    /\ Generated(1) /\ Generated(2)
    /\ ngen[1] = 2 /\ ngen[2] = 1
    /\ width[1] = 5 /\ height[1] = 5 /\ width[2] = 5 /\ height[2] = 5
    /\ seed[1] = seed[2]
    /\ maze[1] = maze[2] /\ Path(1) = Path(2)
    /\ \E a, b \in memo : a.w = b.w /\ a.h = b.h /\ a.maze # b.maze

\* C10: every list returned by get_solution_path() is an object of its own,
\* different from the stored list and from every other returned list; its
\* content is the stored path as it was at the call, changed only by what its
\* own caller did to it; and the stored path stays what the solver computed.
C10_CopyIsolation ==
    /\ \A k \in 1..Len(held) :
          /\ held[k].ref # sol[held[k].inst]
          /\ \A k2 \in 1..Len(held) : held[k].ref = held[k2].ref => k = k2
          /\ heap[held[k].ref] = expect[k]
    /\ \A i \in insts : (pc[i] = "idle" /\ err[i] = "") =>
          Path(i) = IF ngen[i] = 0 THEN <<>>
                    ELSE FindSolution(maze[i], width[i], height[i], SolverDirections).path

C10_Witness ==
    /\ Generated(1) /\ Len(held) = 2 /\ nmut = 2
    /\ Len(Path(1)) = 7
    /\ Len(heap[held[1].ref]) = 8
    /\ heap[held[2].ref][1] = Junk
    /\ Len(heap[held[2].ref]) = 7

\* The cells of the outer boundary: row 0, row height-1, column 0, column width-1.
Boundary(i) == {c \in Cells(i) : c[1] = 0 \/ c[2] = 0
                                 \/ c[1] = width[i] - 1 \/ c[2] = height[i] - 1}

\* C11: after generate() the entry (1, 0) and the exit (width-2, height-1) are
\* open, and every other cell of the outer boundary is a wall.
C11_OnlyEntryAndExitOpenOnBoundary ==
    \A i \in Insts : Generated(i) =>
        /\ ~IsWall(i, <<1, 0>>)
        /\ ~IsWall(i, <<width[i] - 2, height[i] - 1>>)
        /\ \A c \in Boundary(i) :
              ~IsWall(i, c) => c \in {<<1, 0>>, <<width[i] - 2, height[i] - 1>>}

C11_Witness ==
    \E i \in Insts : Generated(i) /\ width[i] = 5 /\ height[i] = 3
                     /\ Cardinality(Boundary(i)) = 12
                     /\ Cardinality(Boundary(i) \cap OpenCells(i)) = 2

\* C12: on the 3x3 maze generate() leaves exactly (1,0), (1,1), (1,2) open and
\* stores exactly the path [(1,0), (1,1), (1,2)].
C12_MinimalMaze ==
    \A i \in Insts : (Generated(i) /\ width[i] = 3 /\ height[i] = 3) =>
        /\ OpenCells(i) = {<<1, 0>>, <<1, 1>>, <<1, 2>>}
        /\ Path(i) = <<<<1, 0>>, <<1, 1>>, <<1, 2>>>>

C12_Witness ==
    \E i \in Insts : Generated(i) /\ width[i] = 3 /\ height[i] = 3 /\ ngen[i] = 2
                     /\ Len(Path(i)) = 3

\* The 24 orders in which the four solver directions can be explored.
DirectionOrders ==
    {p \in [1..4 -> Range(SolverDirections)] : \A a, b \in 1..4 : p[a] = p[b] => a = b}

\* C16: on every grid generate() produced, the BFS run with any order of the
\* four directions returns the path the code's fixed order returned.
C16_OrderIndependent ==
    \A i \in Insts : (Generated(i) /\ err[i] = "") =>
        \A ds \in DirectionOrders :
            LET r == FindSolution(maze[i], width[i], height[i], ds)
            IN ~r.raised /\ r.path = Path(i)

C16_Witness ==
    \E i \in Insts : Generated(i) /\ err[i] = "" /\ width[i] = 5 /\ height[i] = 5
                     /\ Cardinality(DirectionOrders) = 24
                     /\ <<2, 1>> \in Range(Path(i)) /\ <<3, 2>> \in Range(Path(i))

\* C13: a step that is not part of generate() (the instance is idle before and
\* after it: get_solution_path, to_cube_grid, print_maze, or the solver called
\* by itself) leaves the wall field and the stored path as they were.
C13_ReadOnlyOutsideGenerate ==
    [][\A i \in insts : (pc[i] = "idle" /\ pc'[i] = "idle") =>
           /\ maze'[i] = maze[i]
           /\ sol'[i] = sol[i]
           /\ heap'[sol[i]] = heap[sol[i]]]_vars

C13_Witness ==
    /\ Generated(1) /\ Len(Path(1)) = 7
    /\ Len(held) > 0
    /\ cube # <<>> /\ cubeOf.include /\ cubeOf.gen = ngen[1]
    /\ out # <<>> /\ \E y \in 1..Len(out) : "o" \in Range(out[y])
    /\ found # <<>> /\ found.path = Path(1)

\* Entry and exit are joined by a sequence of 4-adjacent open cells.
Connected(i) == ~IsWall(i, Entry) /\ Exit(i) \in ReachOpen(i, {Entry})

RECURSIVE ShortestFrom(_, _, _, _)
ShortestFrom(i, frontier, seen, d) ==
    IF Exit(i) \in frontier THEN d
    ELSE LET more == {c \in OpenCells(i) \ seen : \E b \in frontier : Manhattan(b, c) = 1}
         IN ShortestFrom(i, more, seen \cup more, d + 1)

\* C15: on a grid where open cells join entry and exit, _find_solution returns
\* a walk of open cells from entry to exit that has the least number of cells
\* any such walk can have.
C15_ShortestPath ==
    \A i \in insts : (found # <<>> /\ Connected(i)) =>
        /\ ~found.raised
        /\ found.path[1] = Entry /\ found.path[Len(found.path)] = Exit(i)
        /\ \A n \in 1..Len(found.path) : ~IsWall(i, found.path[n])
        /\ \A n \in 1..(Len(found.path) - 1) : Manhattan(found.path[n], found.path[n + 1]) = 1
        /\ Len(found.path) = ShortestFrom(i, {Entry}, {Entry}, 1)

C15_Witness ==
    /\ found # <<>> /\ Connected(1)
    /\ width[1] = 5 /\ height[1] = 3
    /\ Cardinality(OpenCells(1)) = 15
    /\ Len(found.path) = 5

\* C17 as stated: a generate(seed) call that ran interleaved with a call of
\* another instance ends with the wall field and the path that generate(seed)
\* on the same size produces when it runs alone.
C17_Original_InterleavingInvisible ==
    \A a, b \in memo :
        (a.alone /\ a.w = b.w /\ a.h = b.h /\ a.seed = b.seed) =>
            b.maze = a.maze /\ b.path = a.path

\* The grid the caller holds is what to_cube_grid() returned for instance i,
\* and i has not generated since.
CubeCurrent(i) ==
    /\ cube # <<>>
    /\ cubeOf.inst = i /\ cubeOf.raised = ""
    /\ pc[i] = "idle" /\ cubeOf.gen = ngen[i]

\* The grid position of maze cell c.
Voxel(c) == <<c[1], 0, c[2]>>

\* C18: to_cube_grid(include_solution=False) on an instance without a
\* path_appearance returns a grid of dimensions (width, 1, height) in which
\* (x, 0, y) is occupied exactly when cell (x, y) is a wall, every occupied
\* cube has the wall appearance, and no position has the solution appearance.
C18_WallsOnly ==
    \A i \in insts : (CubeCurrent(i) /\ ~cubeOf.include /\ papp[i] = None) =>
        /\ cube.dims = <<width[i], 1, height[i]>>
        /\ \A c \in Cells(i) : get_cube(cube, Voxel(c)) = [raised |-> "", ret |-> <<IsWall(i, c)>>]
        /\ \A p \in Positions(cube.dims) :
              cube.grid[p] => get_appearance(cube, p).ret = <<WallAppearance>>
        /\ \A p \in Positions(cube.dims) :
              get_appearance(cube, p).ret # <<SolutionAppearance>>

C18_Witness ==
    /\ Generated(1) /\ width[1] = 5 /\ height[1] = 5
    /\ CubeCurrent(1) /\ ~cubeOf.include /\ papp[1] = None
    /\ Cardinality({p \in Positions(cube.dims) : cube.grid[p]}) = 16
    /\ Len(Path(1)) = 7

\* C19: to_cube_grid(include_solution=True) after generate(): every cell of
\* the solution path is occupied with the solution appearance, every wall is
\* occupied with the wall appearance, and every other open cell is unoccupied,
\* or, when a path_appearance is configured, occupied with that appearance.
C19_SolutionCubes ==
    \A i \in insts : (CubeCurrent(i) /\ cubeOf.include /\ ngen[i] > 0) =>
        /\ \A c \in Range(Path(i)) :
              /\ get_cube(cube, Voxel(c)).ret = <<TRUE>>
              /\ get_appearance(cube, Voxel(c)).ret = <<SolutionAppearance>>
        /\ \A c \in Cells(i) : IsWall(i, c) =>
              /\ get_cube(cube, Voxel(c)).ret = <<TRUE>>
              /\ get_appearance(cube, Voxel(c)).ret = <<WallAppearance>>
        /\ \A c \in OpenCells(i) \ Range(Path(i)) :
              IF papp[i] = None
              THEN get_cube(cube, Voxel(c)).ret = <<FALSE>>
              ELSE /\ get_cube(cube, Voxel(c)).ret = <<TRUE>>
                   /\ get_appearance(cube, Voxel(c)).ret = papp[i]

C19_Witness ==
    /\ Generated(1) /\ width[1] = 5 /\ height[1] = 5
    /\ CubeCurrent(1) /\ cubeOf.include /\ papp[1] = Some("path")
    /\ Len(Path(1)) = 7
    /\ Cardinality({p \in Positions(cube.dims) :
                       get_appearance(cube, p).ret = <<"path">>}) = 2
    /\ Cardinality({p \in Positions(cube.dims) :
                       get_appearance(cube, p).ret = <<SolutionAppearance>>}) = 7

\* C20 as stated: set_cube, get_cube and get_appearance called with a position
\* that has a component outside [0, dimension) raise the bounds ValueError and
\* leave the grid as it was.
C20_Original_EveryPositionCallChecksBounds ==
    (/\ call # <<>>
     /\ call.op \in {"set_cube", "get_cube", "get_appearance"}
     /\ ~IsValidPosition(cube, call.pos)) =>
        call.raised = OutsideBounds /\ ~call.changed

\* The occupied positions of the grid the caller holds.
Occupied == {p \in Positions(cube.dims) : cube.grid[p]}

\* C21: right after clear() no position is occupied (get_cube is False
\* everywhere, get_occupied_positions is empty) and get_appearance returns the
\* default appearance for every position.
C21_ClearEmptiesGrid ==
    (call # <<>> /\ call.op = "clear") =>
        /\ \A p \in Positions(cube.dims) : get_cube(cube, p) = [raised |-> "", ret |-> <<FALSE>>]
        /\ get_occupied_positions(cube) = <<>>
        /\ \A p \in Positions(cube.dims) : get_appearance(cube, p).ret = <<DefaultAppearance>>

C21_Witness ==
    /\ call # <<>> /\ call.op = "clear" /\ call.changed
    /\ Cardinality(Positions(cube.dims)) = 3

\* C22: generate_mesh on a grid with n occupied cubes returns 8n vertices, 8n
\* colours and 12n faces, the 12 faces of the k-th cube index only the
\* vertices 8k .. 8k+7, and an empty grid gives an empty mesh.
C22_MeshCounts ==
    (call # <<>> /\ call.op = "generate_mesh") =>
        LET m == call.ret
            n == Cardinality(Occupied)
        IN /\ Len(m.vertices) = 8 * n
           /\ Len(m.colors) = 8 * n
           /\ Len(m.faces) = 12 * n
           /\ \A k \in 0..(n - 1) : \A f \in (12 * k + 1)..(12 * k + 12) : \A j \in 1..3 :
                 8 * k <= m.faces[f][j] /\ m.faces[f][j] < 8 * k + 8
           /\ n = 0 => m = [vertices |-> <<>>, faces |-> <<>>, colors |-> <<>>]

C22_Witness ==
    /\ call # <<>> /\ call.op = "generate_mesh"
    /\ Cardinality(Occupied) = 3
    /\ call.ret.faces[36] = <<19, 22, 23>>
    /\ call.ret.colors[1] = "red" /\ call.ret.colors[24] = DefaultAppearance

\* C30: every position with a stored appearance is occupied, and a set_cube
\* call with occupied=False leaves no appearance stored at its position,
\* whatever appearance it was given.
C30_AppearanceOnlyOnOccupied ==
    cube # <<>> =>
        /\ \A p \in DictKeys(cube.app) : IsValidPosition(cube, p) /\ cube.grid[p]
        /\ (call # <<>> /\ call.op = "set_cube" /\ call.raised = "" /\ ~call.args[1]) =>
              call.pos \notin DictKeys(cube.app)

C30_Witness ==
    /\ call # <<>> /\ call.op = "set_cube" /\ call.raised = ""
    /\ call.args = <<FALSE, Some("red")>> /\ call.changed
    /\ ~cube.grid[call.pos]
    /\ Cardinality(DictKeys(cube.app)) = 1 /\ Cardinality(Occupied) = 2

\* The number of lattice cells (rooms) of instance i.
Rooms(i) == ((width[i] - 1) \div 2) * ((height[i] - 1) \div 2)

\* C24: at every moment of generate() the number of nested, not yet returned
\* _carve_path invocations is at most (width*height)/4.
C24_DepthBound ==
    \A i \in insts : InGenerate(i) => 4 * Len(stack[i]) <= width[i] * height[i]

C24_Witness ==
    \E i \in insts : pc[i] = "carve" /\ width[i] = 5 /\ height[i] = 5
                      /\ Len(stack[i]) = 4 /\ Top(i).pos = "loop"

\* C25: within one generate() no cell is entered twice by _carve_path; a
\* cell about to be entered is in bounds and still a wall, and every cell
\* entered so far is open.
C25_EachCellEnteredOnce ==
    \A i \in insts : InGenerate(i) =>
        /\ \A a, b \in 1..Len(calls[i]) : calls[i][a] = calls[i][b] => a = b
        /\ \A a \in 1..Len(calls[i]) : ~IsWall(i, calls[i][a])
        /\ (pc[i] = "carve" /\ Top(i).pos = "enter") =>
              /\ InBounds(i, Top(i).x, Top(i).y)
              /\ IsWall(i, <<Top(i).x, Top(i).y>>)
              /\ <<Top(i).x, Top(i).y>> \notin Range(calls[i])

C25_Witness ==
    \E i \in insts : pc[i] = "carve" /\ width[i] = 5 /\ height[i] = 5
                      /\ Len(calls[i]) = 4 /\ Len(stack[i]) = 2
                      /\ Top(i).pos = "loop" /\ Len(Top(i).dirs) = 2

\* C26: while the carve runs, and until it has fully returned, the entry and
\* the exit are walls; the solver runs only when the carve has returned,
\* every room is open and both the entry and the exit are open.
C26_StrictOrder ==
    \A i \in insts :
        /\ pc[i] \in {"carve", "open"} => IsWall(i, Entry) /\ IsWall(i, Exit(i))
        /\ pc[i] = "carve" => stack[i] # <<>>
        /\ pc[i] \in {"open", "solve"} =>
              /\ stack[i] = <<>>
              /\ \A c \in Cells(i) : (Odd(c[1]) /\ Odd(c[2])) => ~IsWall(i, c)
        /\ pc[i] = "solve" => ~IsWall(i, Entry) /\ ~IsWall(i, Exit(i))

C26_Witness ==
    \E i \in insts : pc[i] = "solve" /\ width[i] = 5 /\ height[i] = 5 /\ ngen[i] = 2
                      /\ Cardinality(OpenCells(i)) = 9

\* C28: after generate() the number of open cells is 2*L + 1, L being the
\* number of rooms: L rooms, L - 1 connectors, the entry and the exit.
C28_OpenCellCount ==
    \A i \in Insts : Generated(i) =>
        /\ Cardinality(OpenCells(i)) = 2 * Rooms(i) + 1
        /\ Cardinality(links[i]) = Rooms(i) - 1
        /\ Len(calls[i]) = Rooms(i)

C28_Witness ==
    \E i \in Insts : Generated(i) /\ width[i] = 5 /\ height[i] = 3
                     /\ Cardinality(OpenCells(i)) = 5

\* Cell c, with exactly one even coordinate, lies directly between two open
\* cells with both coordinates odd.
JoinsOpenRooms(i, c) ==
    IF Odd(c[1])
    THEN /\ 0 < c[2] /\ c[2] < height[i] - 1
         /\ ~IsWall(i, <<c[1], c[2] - 1>>) /\ ~IsWall(i, <<c[1], c[2] + 1>>)
    ELSE /\ 0 < c[1] /\ c[1] < width[i] - 1
         /\ ~IsWall(i, <<c[1] - 1, c[2]>>) /\ ~IsWall(i, <<c[1] + 1, c[2]>>)

\* The open cells of i with exactly one even coordinate, entry and exit aside.
Connectors(i) ==
    {c \in OpenCells(i) : Odd(c[1]) # Odd(c[2])} \ {Entry, Exit(i)}

\* C29 as stated: at every point during and after generate() every cell with
\* two even coordinates is a wall and every open connector lies between two
\* open rooms.
C29_Original_ConnectorsJoinOpenRooms ==
    \A i \in insts : pc[i] \in {"idle", "carve", "open", "solve"} =>
        /\ \A c \in Cells(i) : (~Odd(c[1]) /\ ~Odd(c[2])) => IsWall(i, c)
        /\ \A c \in Connectors(i) : JoinsOpenRooms(i, c)

\* The room a pending _carve_path invocation is about to mark.
Pending(i) ==
    IF pc[i] = "carve" /\ Top(i).pos = "enter" THEN {<<Top(i).x, Top(i).y>>} ELSE {}

\* Cell c, with exactly one even coordinate, lies directly between two cells
\* with both coordinates odd, each of them open or about to be marked.
JoinsRooms(i, c) ==
    LET a == IF Odd(c[1]) THEN <<c[1], c[2] - 1>> ELSE <<c[1] - 1, c[2]>>
        b == IF Odd(c[1]) THEN <<c[1], c[2] + 1>> ELSE <<c[1] + 1, c[2]>>
    IN /\ a \in Cells(i) /\ b \in Cells(i)
       /\ ~IsWall(i, a) \/ a \in Pending(i)
       /\ ~IsWall(i, b) \/ b \in Pending(i)

\* C29 amended: every cell with two even coordinates is always a wall; every
\* open connector lies between two rooms that are open, except that the room
\* the carver has just stepped to is opened one step after its connector;
\* whenever no invocation is pending every connector joins two open rooms.
C29_ConnectorsJoinRooms ==
    \A i \in insts : pc[i] \in {"idle", "carve", "open", "solve"} =>
        /\ \A c \in Cells(i) : (~Odd(c[1]) /\ ~Odd(c[2])) => IsWall(i, c)
        /\ \A c \in Connectors(i) : JoinsRooms(i, c)
        /\ Pending(i) = {} => \A c \in Connectors(i) : JoinsOpenRooms(i, c)

C29_Witness ==
    \E i \in insts : pc[i] = "carve" /\ width[i] = 5 /\ height[i] = 5
                      /\ Pending(i) # {} /\ Cardinality(Connectors(i)) = 3
                      /\ \E c \in Connectors(i) : ~JoinsOpenRooms(i, c)

\* C27: on an instance that never generated the stored path is empty and the
\* grid fully walled; after any number of generate() calls and reads the
\* stored path is an entry-to-exit walk of open cells of the current wall
\* field; and every generate() starts its carve on an all-wall grid.
C27_RegenerateInvariant ==
    \A i \in insts :
        /\ (pc[i] = "idle" /\ ngen[i] = 0) =>
              Path(i) = <<>> /\ maze[i] = AllWalls(width[i], height[i])
        /\ Generated(i) =>
              /\ err[i] = "" /\ Path(i) # <<>>
              /\ Path(i)[1] = Entry /\ Path(i)[Len(Path(i))] = Exit(i)
              /\ \A n \in 1..Len(Path(i)) : ~IsWall(i, Path(i)[n])
              /\ \A n \in 1..(Len(Path(i)) - 1) : Manhattan(Path(i)[n], Path(i)[n + 1]) = 1
        /\ (pc[i] = "carve" /\ calls[i] = <<>>) => maze[i] = AllWalls(width[i], height[i])

C27_Witness ==
    /\ Generated(1) /\ ngen[1] = 2 /\ seed[1] = None /\ rng # OS
    /\ width[1] = 5 /\ height[1] = 5 /\ Len(Path(1)) = 7
    /\ out # <<>> /\ cube # <<>> /\ Len(held) = 1 /\ heap[held[1].ref] = Path(1)

\* C23: a carve that has started eventually returns to generate(), and the
\* number of _carve_path invocations of one generate() never exceeds the
\* number of grid cells.
C23_CarveTerminates ==
    (\E i \in Insts : pc[i] = "carve")
        ~> (\E i \in Insts : /\ pc[i] = "open"
                              /\ stack[i] = <<>>
                              /\ Len(calls[i]) <= width[i] * height[i])

C23_Witness ==
    \E i \in insts : pc[i] = "open" /\ width[i] = 5 /\ height[i] = 5
                      /\ Len(calls[i]) = 4 /\ stack[i] = <<>>

\* The interpreter runs one call at a time: a call on instance i starts or
\* continues only while no other instance is inside generate().
Quiet(i) == \A j \in Insts \ {i} : ~InGenerate(j)

\* The steps of a running generate().
GenerateStep(i) ==
    \/ CarveEnter(i)
    \/ CarveTry(i)
    \/ CarveReturn(i)
    \/ OpenEntryExit(i)
    \/ Solve(i)

\* One instance, constructed with any arguments, generating with the generator
\* in its OS-seeded start state: every outcome of every shuffle.
Init == InitWith({1})

Next ==
    \/ \E i \in Insts, w \in 0..MaxWidth, h \in 0..MaxHeight : Construct(i, w, h)
    \/ \E i \in Insts : Generate(i, None)
    \/ \E i \in Insts : GenerateStep(i)

Spec == Init /\ [][Next]_vars

\* The sizes up to n the constructor accepts.
ValidSizes(n) == {k \in 3..n : k % 2 = 1}

\* Two instances used one call after the other, every generate() seeded.
InitSeeded == InitWith({1, 2})

NextSeeded ==
    \/ \E i \in Insts, w \in ValidSizes(MaxWidth), h \in ValidSizes(MaxHeight) :
           Quiet(i) /\ Construct(i, w, h)
    \/ \E i \in Insts, sd \in Seeds :
           Quiet(i) /\ ngen[1] + ngen[2] < MaxRuns /\ Generate(i, Some(sd))
    \/ \E i \in Insts : Quiet(i) /\ GenerateStep(i)

SpecSeeded == InitSeeded /\ [][NextSeeded]_vars

\* One instance, seeded, whose callers read the solution path before and after
\* generate() and mutate the lists they were handed.
InitCopy == InitWith({1})

NextCopy ==
    \/ \E i \in Insts, w \in ValidSizes(MaxWidth), h \in ValidSizes(MaxHeight) :
           Construct(i, w, h)
    \/ \E i \in Insts, sd \in Seeds : Generate(i, Some(sd))
    \/ \E i \in Insts : GenerateStep(i)
    \/ \E i \in Insts : GetSolutionPath(i)
    \/ \E k \in 1..MaxCopies : MutateAppend(k)
    \/ \E k \in 1..MaxCopies : MutatePop(k)
    \/ \E k \in 1..MaxCopies : MutateSetItem(k)

SpecCopy == InitCopy /\ [][NextCopy]_vars

\* The caller holds something it read from an instance.
Holding == held # <<>> \/ cube # <<>> \/ out # <<>> \/ found # <<>>

\* The caller drops everything it read; the list copies it held are freed.
Forget ==
    /\ Holding
    /\ held' = <<>>
    /\ expect' = <<>>
    /\ heap' = LET used == {sol[i] : i \in {j \in insts : pc[j] \notin {"none", "error"}}}
               IN SubSeq(heap, 1, CHOOSE n \in used \cup {0} : \A u \in used : u <= n)
    /\ found' = <<>>
    /\ cube' = <<>>
    /\ cubeOf' = <<>>
    /\ out' = <<>>
    /\ UNCHANGED <<call, cfgVars, instVars, rng, nmut, memo>>

\* One instance, seeded, whose caller reads it between generate() calls: the
\* path, the cube grid, the printout, and the solver called by itself.  The
\* caller keeps nothing it read across a generate() call.
InitRead == InitWith({1})

NextRead ==
    \/ \E i \in Insts, w \in ValidSizes(MaxWidth), h \in ValidSizes(MaxHeight),
          pa \in {None, Some("path")} : ConstructWith(i, w, h, pa)
    \/ \E i \in Insts, sd \in Seeds : ~Holding /\ Generate(i, Some(sd))
    \/ \E i \in Insts : GenerateStep(i)
    \/ \E i \in Insts : GetSolutionPath(i)
    \/ \E i \in Insts, include \in BOOLEAN : ToCubeGrid(i, include)
    \/ \E i \in Insts, show \in BOOLEAN : PrintMaze(i, show)
    \/ \E i \in Insts : FindSolutionCall(i)
    \/ Forget

SpecRead == InitRead /\ [][NextRead]_vars

\* The solver called by itself on instance 1 holding any wall field of at most
\* MaxCells cells.
InitSolver ==
    \E w \in ValidSizes(MaxWidth), h \in ValidSizes(MaxHeight) :
        /\ w * h <= MaxCells
        /\ \E g \in Grids(w, h) : InitGrid(w, h, g)

NextSolver == \E i \in Insts : FindSolutionCall(i)

SpecSolver == InitSolver /\ [][NextSolver]_vars

\* The smallest size the constructor accepts.
MinSize == 3

\* Two instances whose seeded generate() calls run interleaved, step by step,
\* as two threads of one interpreter run them: instance 1, of any size,
\* generates, and instance 2, of the smallest size, starts its generate()
\* calls while one of instance 1 is running.
InitConc == InitWith({1, 2})

NextConc ==
    \/ \E w \in ValidSizes(MaxWidth), h \in ValidSizes(MaxHeight) :
           Quiet(1) /\ Construct(1, w, h)
    \/ Quiet(2) /\ Construct(2, MinSize, MinSize)
    \/ \E sd \in Seeds :
           Quiet(1) /\ ngen[1] + ngen[2] < MaxRuns /\ Generate(1, Some(sd))
    \/ \E sd \in Seeds :
           InGenerate(1) /\ ngen[1] + ngen[2] < MaxRuns /\ Generate(2, Some(sd))
    \/ \E i \in Insts : GenerateStep(i)

SpecConc == InitConc /\ [][NextConc]_vars

\* The dimension tuples a caller passes: at most one dimension above 1, and 0
\* (an invalid dimension) among them.
DimTuples ==
    {d \in (0..MaxDim) \X (0..MaxDim) \X (0..MaxDim) :
        \E k \in 1..3 : \A j \in (1..3) \ {k} : d[j] <= 1}

\* The positions a caller passes: along each axis from -1 (a negative index)
\* to MaxDim (past the largest grid).
PosTuples ==
    {p \in (-1..MaxDim) \X (-1..MaxDim) \X (-1..MaxDim) :
        \E k \in 1..3 : \A j \in (1..3) \ {k} : p[j] = 0}

\* A caller that builds one CubeGrid and works on it directly.
InitGridUse == InitWith({})

NextGridUse ==
    \/ \E dims \in DimTuples : NewCubeGrid(dims)
    \/ \E pos \in PosTuples, occupied \in BOOLEAN, appearance \in {None, Some("red")} :
           SetCube(pos, occupied, appearance)
    \/ \E pos \in PosTuples : GetCube(pos)
    \/ \E pos \in PosTuples : GetAppearance(pos)
    \/ Clear
    \/ GenerateMesh

SpecGridUse == InitGridUse /\ [][NextGridUse]_vars

\* One instance generating again and again, with a seed or without, whose
\* caller reads it between the calls.
InitRegen == InitWith({1})

NextRegen ==
    \/ \E i \in Insts, w \in ValidSizes(MaxWidth), h \in ValidSizes(MaxHeight) :
           Construct(i, w, h)
    \/ \E i \in Insts, sd \in {None} \cup {Some(n) : n \in Seeds} :
           ~Holding /\ Generate(i, sd)
    \/ \E i \in Insts : GenerateStep(i)
    \/ \E i \in Insts : GetSolutionPath(i)
    \/ \E i \in Insts, include \in BOOLEAN : ToCubeGrid(i, include)
    \/ \E i \in Insts, show \in BOOLEAN : PrintMaze(i, show)
    \/ \E i \in Insts : FindSolutionCall(i)
    \/ Forget

SpecRegen == InitRegen /\ [][NextRegen]_vars

\* The steps of a running carve.
CarveStep(i) == CarveEnter(i) \/ CarveTry(i) \/ CarveReturn(i)

\* One instance of a valid size and its first generate(), with the generator
\* in its OS-seeded start state (every later generate() starts from the same
\* all-wall grid); a carve that can take a step takes one (the interpreter
\* does not stop in the middle of a call).
InitLive == InitWith({1})

NextLive ==
    \/ \E i \in Insts, w \in ValidSizes(MaxWidth), h \in ValidSizes(MaxHeight) :
           Construct(i, w, h)
    \/ \E i \in Insts : ngen[i] = 0 /\ Generate(i, None)
    \/ \E i \in Insts : GenerateStep(i)

SpecLive == InitLive /\ [][NextLive]_vars /\ WF_vars(\E i \in Insts : CarveStep(i))
====
